---- MODULE Spec2Model ----
(***************************************************************************)
(* A model of sync_albums.py: the uploads ledger (sync_state.db), the      *)
(* pending-work calculation of main(), find_or_create_album, the two-phase *)
(* upload_photo with its retry loops, download_and_upload_missing, and the *)
(* album/photo loops of main().                                            *)
(*                                                                         *)
(* Python values: None/True/False returned by upload_photo are the strings *)
(* "None"/"True"/"False"; an album is a record [title, photos]; a photo is *)
(* its uuid; a ledger row is the pair <<photo_uuid, album_title>>.         *)
(***************************************************************************)
EXTENDS Integers, Sequences, FiniteSets, TLC

(***************************************************************************)
(* Bounds of the model.                                                    *)
(***************************************************************************)
MaxRuns == 2          \* invocations of main() in one behaviour
MaxAlbums == 2        \* shared albums of a generated library listing
MaxPhotos == 2        \* photos of one album of a generated library listing
MaxLedger == 2        \* rows of a generated ledger
JitterDen == 2        \* random.uniform(0, 1) is drawn from {0/JitterDen, .., (JitterDen-1)/JitterDen}

(***************************************************************************)
(* Program constants.                                                      *)
(***************************************************************************)
MaxAttempts == 5      \* for attempt in range(5)
chunk_size == 50
pageSize == 50

RetryStatus == {"429", "500", "502", "503", "504"}

Uuids == {"a", "b", "c"}
Titles == {"D1", "D2"}

Min(x, y) == IF x <= y THEN x ELSE y
Max(x, y) == IF x >= y THEN x ELSE y

RECURSIVE Pow2(_)
Pow2(n) == IF n = 0 THEN 1 ELSE 2 * Pow2(n - 1)

Range(s) == {s[k] : k \in 1..Len(s)}

NoDup(s) == \A k1, k2 \in 1..Len(s) : k1 # k2 => s[k1] # s[k2]

SeqsUpTo(S, n) == UNION {[1..k -> S] : k \in 0..n}

(***************************************************************************)
(* Library listings (photosdb.album_info_shared).  An album lists a photo  *)
(* once; two shared albums may carry the same title.                       *)
(***************************************************************************)
PhotoLists == {s \in SeqsUpTo(Uuids, MaxPhotos) : NoDup(s)}

Albums == [title : Titles, photos : PhotoLists]

GenLibraries == SeqsUpTo(Albums, MaxAlbums)

\* the listing of the backlog example: D1 = [a,b,c], D2 = [a,d]
ExampleLibrary ==
    << [title |-> "D1", photos |-> <<"a", "b", "c">>],
       [title |-> "D2", photos |-> <<"a", "d">>] >>

ExampleLedger == { <<"a", "D1">> }

GenLedgers == {l \in SUBSET (Uuids \X Titles) : Cardinality(l) <= MaxLedger}

\* the listings the runs of main() are explored on
RunLibraries ==
    { << [title |-> "D1", photos |-> <<"a", "b">>],
         [title |-> "D2", photos |-> <<"a">>] >>,
      << [title |-> "D1", photos |-> <<"a">>],
         [title |-> "D1", photos |-> <<"a">>] >> }

AllUuids == Uuids \cup {"d"}
AllPairs == AllUuids \X Titles

LibPairs(lib) ==
    UNION { { <<p, lib[i].title>> : p \in Range(lib[i].photos) } : i \in 1..Len(lib) }

(***************************************************************************)
(* main(), lines 313-318: the pending-work calculation.                    *)
(***************************************************************************)
\* mutant: the SELECT lacks its WHERE album_title=? clause
synced_uuids_any_title(db, title) == { row[1] : row \in db }

\* SELECT photo_uuid FROM uploads WHERE album_title=?
synced_uuids(db, title) == { row[1] : row \in {r \in db : r[2] = title} }

\* [p for p in album.photos if p.uuid not in synced_uuids]
RECURSIVE photos_to_sync_of(_, _)
photos_to_sync_of(photos, synced) ==
    IF photos = <<>> THEN <<>>
    ELSE LET rest == photos_to_sync_of(Tail(photos), synced)
         IN  IF Head(photos) \notin synced THEN <<Head(photos)>> \o rest ELSE rest

RECURSIVE CalcPending(_, _)
CalcPending(albums, db) ==
    IF albums = <<>> THEN <<>>
    ELSE LET album == Head(albums)
             pts   == photos_to_sync_of(album.photos, synced_uuids(db, album.title))
             rest  == CalcPending(Tail(albums), db)
         IN  IF pts # <<>>
             THEN <<[title |-> album.title, photos |-> pts]>> \o rest
             ELSE rest

RECURSIVE total_pending_of(_)
total_pending_of(ats) ==
    IF ats = <<>> THEN 0 ELSE Len(Head(ats).photos) + total_pending_of(Tail(ats))

\* albums_to_sync[:args.num]  (Python slice: a negative bound counts from the end)
Slice(s, n) ==
    IF n >= 0 THEN SubSeq(s, 1, Min(n, Len(s)))
    ELSE SubSeq(s, 1, Max(Len(s) + n, 0))

(***************************************************************************)
(* upload_photo, lines 108-176.  The remote's answers to the attempts of   *)
(* one phase are a script `resps` (resps[k] answers attempt k-1), the      *)
(* random.uniform(0, 1) draws are `jit` (numerators over JitterDen); a     *)
(* delay is counted in units of 1/JitterDen seconds.                       *)
(*   byte upload answers: "200", an HTTP error status, "Timeout",          *)
(*                        "ConnectionError";                               *)
(*   batchCreate answers: "Success" / "Failure" (a response whose status   *)
(*                        message is / is not 'Success'), an HttpError     *)
(*                        status.                                          *)
(***************************************************************************)
\* mutant: the exponent counts attempts from 1
Wait_from_one(attempt, j) == Pow2(attempt + 1) * JitterDen + j

\* wait = (2 ** attempt) + random.uniform(0, 1)
Wait(attempt, j) == Pow2(attempt) * JitterDen + j

\* mutant: a non-retryable error is raised only after a backoff delay
RECURSIVE upload_bytes_loop_sleep_first(_, _, _, _)
upload_bytes_loop_sleep_first(resps, jit, attempt, delays) ==
    IF attempt >= MaxAttempts
    THEN [ret |-> "None", attempts |-> attempt, delays |-> delays,
          resps |-> SubSeq(resps, 1, attempt)]
    ELSE LET r == resps[attempt + 1] IN
         IF r = "200"
         THEN [ret |-> "token", attempts |-> attempt + 1, delays |-> delays,
               resps |-> SubSeq(resps, 1, attempt + 1)]
         ELSE IF r \in RetryStatus \cup {"Timeout", "ConnectionError"}
         THEN upload_bytes_loop_sleep_first(resps, jit, attempt + 1,
                                Append(delays, Wait(attempt, jit[attempt + 1])))
         ELSE [ret |-> "raise", attempts |-> attempt + 1,
               delays |-> Append(delays, Wait(attempt, jit[attempt + 1])),
               resps |-> SubSeq(resps, 1, attempt + 1)]

\* lines 111-135
RECURSIVE upload_bytes_loop(_, _, _, _)
upload_bytes_loop(resps, jit, attempt, delays) ==
    IF attempt >= MaxAttempts
    THEN [ret |-> "None", attempts |-> attempt, delays |-> delays,
          resps |-> SubSeq(resps, 1, attempt)]
    ELSE LET r == resps[attempt + 1] IN
         IF r = "200"
         THEN [ret |-> "token", attempts |-> attempt + 1, delays |-> delays,
               resps |-> SubSeq(resps, 1, attempt + 1)]
         ELSE IF r \in RetryStatus
         THEN upload_bytes_loop(resps, jit, attempt + 1,
                                Append(delays, Wait(attempt, jit[attempt + 1])))
         ELSE IF r \in {"Timeout", "ConnectionError"}
         THEN upload_bytes_loop(resps, jit, attempt + 1,
                                Append(delays, Wait(attempt, jit[attempt + 1])))
         ELSE [ret |-> "raise", attempts |-> attempt + 1, delays |-> delays,
               resps |-> SubSeq(resps, 1, attempt + 1)]

upload_bytes_with_retry(resps, jit) == upload_bytes_loop(resps, jit, 0, <<>>)

\* lines 137-152
RECURSIVE create_media_loop(_, _, _, _)
create_media_loop(resps, jit, attempt, delays) ==
    IF attempt >= MaxAttempts
    THEN [ret |-> "None", attempts |-> attempt, delays |-> delays,
          resps |-> SubSeq(resps, 1, attempt)]
    ELSE LET r == resps[attempt + 1] IN
         IF r \in {"Success", "Failure"}
         THEN [ret |-> r, attempts |-> attempt + 1, delays |-> delays,
               resps |-> SubSeq(resps, 1, attempt + 1)]
         ELSE IF r \in RetryStatus
         THEN create_media_loop(resps, jit, attempt + 1,
                                Append(delays, Wait(attempt, jit[attempt + 1])))
         ELSE [ret |-> "raise", attempts |-> attempt + 1, delays |-> delays,
               resps |-> SubSeq(resps, 1, attempt + 1)]

create_media_with_retry(resps, jit) == create_media_loop(resps, jit, 0, <<>>)

\* mutant: an exhausted commit phase is reported as None
commit_result_none(cm) ==
    IF cm.ret = "raise" THEN "False"
    ELSE IF cm.ret = "None" THEN "None"
    ELSE IF cm.ret = "Success" THEN "True" ELSE "False"

\* lines 165-176: the value upload_photo returns once the commit phase ended
commit_result(cm) ==
    IF cm.ret = "raise" THEN "False"
    ELSE IF cm.ret = "None" THEN "False"
    ELSE IF cm.ret = "Success" THEN "True" ELSE "False"

(***************************************************************************)
(* Answer scripts: retryable answers up to the first final answer, at most *)
(* MaxAttempts answers in all.                                             *)
(***************************************************************************)
Scripts(retry, final) ==
    { s \in SeqsUpTo(retry \cup final, MaxAttempts) :
        /\ s # <<>>
        /\ \A k \in 1..(Len(s) - 1) : s[k] \in retry
        /\ Len(s) < MaxAttempts => s[Len(s)] \in final }

UpScripts == Scripts({"429", "Timeout"}, {"200", "400"})
CmScripts == Scripts({"429", "503"}, {"Success", "Failure", "403"})

JitterSeqs ==
    { [k \in 1..MaxAttempts |-> j] : j \in 0..(JitterDen - 1) } \cup
    { [k \in 1..MaxAttempts |-> IF k % 2 = 1 THEN JitterDen - 1 ELSE 0],
      [k \in 1..MaxAttempts |-> IF k % 2 = 0 THEN JitterDen - 1 ELSE 0] }

\* the answers and draws the runs of main() are explored on
RunUpScripts == { <<"200">>, <<"400">>, <<"429", "429", "429", "429", "429">> }
RunCmScripts == { <<"Success">>, <<"Failure">>, <<"403">>, <<"503", "Success">>,
                  <<"429", "429", "429", "429", "429">> }
RunJitterSeqs == { [k \in 1..MaxAttempts |-> 0] }

NoLog == [ret |-> "-", attempts |-> 0, delays |-> <<>>, resps |-> <<>>]

(***************************************************************************)
(* find_or_create_album, lines 86-106.  The remote listing is the sequence *)
(* of album titles, an album's id its position; a page holds pageSize      *)
(* albums and the page token is the number of albums already listed.       *)
(***************************************************************************)
DRY_RUN_ID == 0

\* mutant: the listing never carries a nextPageToken
albums_list_one_page(remote, page_token) ==
    [albums |-> (page_token + 1)..Min(page_token + pageSize, Len(remote)),
     nextPageToken |-> 0]

\* service.albums().list(pageSize=50, pageToken=page_token).execute()
albums_list(remote, page_token) ==
    [albums |-> (page_token + 1)..Min(page_token + pageSize, Len(remote)),
     nextPageToken |-> IF page_token + pageSize < Len(remote)
                       THEN page_token + pageSize ELSE 0]

\* lines 91-106: [id, remote after the call, list calls, create calls]
RECURSIVE find_loop(_, _, _, _)
find_loop(remote, title, page_token, lists) ==
    LET results == albums_list(remote, page_token)
        hits    == {a \in results.albums : remote[a] = title}
    IN  IF hits # {}
        THEN [id |-> CHOOSE a \in hits : \A b \in hits : a <= b,
              remote |-> remote, lists |-> lists + 1, creates |-> 0]
        ELSE IF results.nextPageToken # 0
        THEN find_loop(remote, title, results.nextPageToken, lists + 1)
        ELSE [id |-> Len(remote) + 1, remote |-> Append(remote, title),
              lists |-> lists + 1, creates |-> 1]

\* mutant: the dry-run guard is missing
find_or_create_album_no_guard(remote, title, dry) == find_loop(remote, title, 0, 0)

find_or_create_album(remote, title, dry) ==
    IF dry THEN [id |-> DRY_RUN_ID, remote |-> remote, lists |-> 0, creates |-> 0]
    ELSE find_loop(remote, title, 0, 0)

(***************************************************************************)
(* State.                                                                  *)
(***************************************************************************)
VARIABLES
    shared_albums,    \* photosdb.album_info_shared, unchanged over the runs
    ledger,           \* rows of the uploads table
    temp_dir,         \* files in ./temp
    token_pickle,     \* token.pickle exists
    r_albums,         \* titles of the remote albums, by id
    runs,             \* invocations of main() so far
    pc,               \* position of the running main(), "idle" between runs
    dry_run,          \* args.dry_run
    args_num,         \* args.num (0 when --all is given: only its truth value is read)
    albums_to_sync,   \* main: the backlog
    ai,               \* main: index of the album being processed
    pi,               \* main: index of the photo being processed
    missing_photos,   \* main: photos queued for the iCloud download
    g_id,             \* main: id of the resolved album
    exported,         \* main: files photo.export returned
    ci,               \* download_and_upload_missing: i, offset of the chunk
    cj,               \* download_and_upload_missing: j, index in the chunk
    found_files,      \* download_and_upload_missing: glob result
    ret_pc,           \* upload_photo: where it returns to
    up_args,          \* upload_photo: [uuid, album_id] of the call
    up_log,           \* upload_photo: what _upload_bytes_with_retry did
    cm_log,           \* upload_photo: what _create_media_with_retry did
    up_result,        \* upload_photo: the value returned
    watch,            \* observed: the <<uuid, title>> pair the counters below are about
    created,          \* observed: successful batchCreate commits of the watched pair
    commit_calls,     \* observed: batchCreate calls for the watched pair
    insert_attempts,  \* observed: INSERTs executed for the watched pair
    returned_true,    \* observed: upload_photo calls for the watched pair that returned True
    calls,            \* observed: kinds of remote calls issued in this run
    ledger0,          \* observed: the ledger when this run started
    halt,             \* observed: how the last run ended ("-" while it runs)
    resolve_tries,    \* observed: find_or_create_album calls for the current album
    auth_flows,       \* observed: get_google_service calls made for the current album
    insert_path,      \* observed: the call site of the last INSERT
    dup_key,          \* observed: an INSERT of this run hit the primary key
    prev_full,        \* observed: the previous run was a full one (not dry, no --num,
                      \*           confirmed) and went through its whole backlog
    args_all,         \* --all was given: args.num is None (args_num reads 0 then)
    invoked,          \* traced: the osxphotos exports of the current album, in order:
                      \*         [title, chunk, outcome]
    find_log,         \* traced: list and create calls of the last find_or_create_album
    confirmed_run,    \* traced: pairs whose batchCreate answered 'Success' in this run
    direct_tries,     \* traced: upload_photo calls of main for the watched pair, this run
    recovery_tries    \* traced: exports the watched pair was passed to, this run

world == <<shared_albums, ledger, temp_dir, token_pickle, r_albums>>
args == <<dry_run, args_num, prev_full, args_all>>    \* fixed while a run lasts
locals == <<albums_to_sync, ai, pi, missing_photos, g_id, exported, ci, cj, found_files>>
upvars == <<ret_pc, up_args, up_log, cm_log, up_result>>
observed == <<watch, created, commit_calls, insert_attempts, returned_true, calls, ledger0,
              halt, resolve_tries, auth_flows, insert_path, dup_key>>
traced == <<invoked, find_log, confirmed_run, direct_tries, recovery_tries>>
vars == <<world, runs, pc, args, locals, upvars, observed, traced>>

NoFind == [lists |-> 0, creates |-> 0]

NoArgs == [uuid |-> "-", album_id |-> 0]

InitLocals ==
    /\ albums_to_sync = <<>> /\ ai = 0 /\ pi = 0 /\ missing_photos = <<>>
    /\ g_id = 0 /\ exported = <<>> /\ ci = 0 /\ cj = 0 /\ found_files = <<>>

InitUp ==
    /\ ret_pc = "-" /\ up_args = NoArgs /\ up_log = NoLog /\ cm_log = NoLog
    /\ up_result = "-"

InitObserved ==
    /\ created = 0
    /\ commit_calls = 0
    /\ insert_attempts = 0
    /\ returned_true = 0
    /\ calls = {}
    /\ ledger0 = ledger
    /\ halt = "-"
    /\ resolve_tries = 0
    /\ auth_flows = 0
    /\ insert_path = "-"
    /\ dup_key = FALSE
    /\ prev_full = FALSE
    /\ args_all = TRUE
    /\ invoked = <<>>
    /\ find_log = NoFind
    /\ confirmed_run = {}
    /\ direct_tries = 0
    /\ recovery_tries = 0

\* the state before the first run: an empty uploads table, no token, no remote album
Init ==
    /\ shared_albums \in RunLibraries
    /\ watch \in LibPairs(shared_albums)
    /\ ledger = {} /\ temp_dir = {} /\ token_pickle = FALSE /\ r_albums = <<>>
    /\ runs = 0 /\ pc = "idle" /\ dry_run = FALSE /\ args_num = 0
    /\ InitLocals /\ InitUp /\ InitObserved

\* what a return (or an exception leaving main) discards
ResetLocals ==
    /\ albums_to_sync' = <<>> /\ ai' = 0 /\ pi' = 0 /\ missing_photos' = <<>>
    /\ g_id' = 0 /\ exported' = <<>> /\ ci' = 0 /\ cj' = 0 /\ found_files' = <<>>
    /\ ret_pc' = "-" /\ up_args' = NoArgs /\ up_log' = NoLog /\ cm_log' = NoLog
    /\ up_result' = "-"

\* the frame of upload_photo is gone once its result is consumed
ReturnedFrom ==
    /\ ret_pc' = "-" /\ up_args' = NoArgs /\ up_log' = NoLog /\ cm_log' = NoLog
    /\ up_result' = "-"

\* main returns, raises or exits
Leave(how) ==
    /\ pc' = "idle"
    /\ halt' = how
    /\ ResetLocals

(***************************************************************************)
(* upload_photo as two steps: lines 154-162 and lines 164-176.             *)
(***************************************************************************)
\* the remote collection a commit goes to
Target == <<up_args.uuid, r_albums[up_args.album_id]>>

upload_photo_bytes(scripts, jits) ==
    /\ pc = "up_bytes"
    /\ \E resps \in scripts, jit \in jits :
         LET up == upload_bytes_with_retry(resps, jit) IN
         /\ up_log' = up
         /\ IF up.ret = "token"
            THEN pc' = "up_commit" /\ up_result' = "-"
            ELSE pc' = ret_pc /\ up_result' = "None"
    /\ calls' = calls \cup {"upload"}
    /\ UNCHANGED <<world, runs, args, locals, ret_pc, up_args, cm_log, traced>>
    /\ UNCHANGED <<watch, created, commit_calls, insert_attempts, returned_true, ledger0,
                   halt, resolve_tries, auth_flows, insert_path, dup_key>>

upload_photo_commit(scripts, jits) ==
    /\ pc = "up_commit"
    /\ \E resps \in scripts, jit \in jits :
         LET cm == create_media_with_retry(resps, jit) IN
         /\ cm_log' = cm
         /\ up_result' = commit_result(cm)
         /\ commit_calls' = IF Target = watch
                            THEN commit_calls + cm.attempts ELSE commit_calls
         /\ created' = IF Target = watch /\ cm.ret = "Success"
                       THEN created + 1 ELSE created
         /\ returned_true' = IF Target = watch /\ commit_result(cm) = "True"
                             THEN returned_true + 1 ELSE returned_true
         /\ confirmed_run' = IF cm.ret = "Success"
                             THEN confirmed_run \cup {Target} ELSE confirmed_run
    /\ pc' = ret_pc
    /\ calls' = calls \cup {"commit"}
    /\ UNCHANGED <<world, runs, args, locals, ret_pc, up_args, up_log>>
    /\ UNCHANGED <<invoked, find_log, direct_tries, recovery_tries>>
    /\ UNCHANGED <<watch, insert_attempts, ledger0, halt, resolve_tries, auth_flows,
                   insert_path, dup_key>>

(***************************************************************************)
(* main(), lines 267-336: start of a run.                                  *)
(***************************************************************************)
\* the values of --num the runs are explored on
RunNums == {0, 1}

\* lines 267-306: parse_args, setup_tracking, get_google_service, PhotosDB
StartRun ==
    /\ pc = "idle"
    /\ runs < MaxRuns
    /\ runs' = runs + 1
    /\ \E d \in BOOLEAN : dry_run' = d
    /\ \E all \in BOOLEAN :
         /\ args_all' = all
         /\ IF all THEN args_num' = 0 ELSE \E n \in RunNums : args_num' = n
    /\ invoked' = <<>> /\ find_log' = NoFind /\ confirmed_run' = {}
    /\ direct_tries' = 0 /\ recovery_tries' = 0
    /\ prev_full' = (halt = "finished" /\ ~dry_run /\ args_num = 0)
    /\ ledger0' = ledger /\ calls' = {} /\ dup_key' = FALSE
    /\ resolve_tries' = 0 /\ auth_flows' = 0 /\ insert_path' = "-"
    /\ \E service \in {"cached", "flow", "raise"}, photosdb \in {"ok", "raise"} :
         /\ service = "cached" => token_pickle
         /\ IF service = "raise"
            THEN /\ pc' = "idle" /\ halt' = "no_service"
                 /\ token_pickle' = token_pickle
            ELSE /\ token_pickle' = TRUE
                 /\ IF photosdb = "raise"
                    THEN pc' = "idle" /\ halt' = "no_library"
                    ELSE pc' = "calc" /\ halt' = "-"
    /\ UNCHANGED <<shared_albums, ledger, temp_dir, r_albums, locals, upvars>>
    /\ UNCHANGED <<watch, created, commit_calls, insert_attempts, returned_true>>

\* lines 308-320
ComputeBacklog ==
    /\ pc = "calc"
    /\ albums_to_sync' = CalcPending(shared_albums, ledger)
    /\ pc' = "pending"
    /\ UNCHANGED <<world, runs, args, ai, pi, missing_photos, g_id, exported, ci, cj,
                   found_files, upvars, observed>>
    /\ UNCHANGED traced

\* lines 322-324
AllSynced ==
    /\ pc = "pending"
    /\ total_pending_of(albums_to_sync) = 0
    /\ Leave("all_synced")
    /\ UNCHANGED <<world, runs, args>>
    /\ UNCHANGED traced
    /\ UNCHANGED <<watch, created, commit_calls, insert_attempts, returned_true, calls, ledger0,
                   resolve_tries, auth_flows, insert_path, dup_key>>

\* lines 326-336: --num, then the confirmation prompt
LimitAndConfirm ==
    /\ pc = "pending"
    /\ total_pending_of(albums_to_sync) # 0
    /\ \E go \in BOOLEAN :
         IF go
         THEN /\ albums_to_sync' = IF args_num # 0
                                   THEN Slice(albums_to_sync, args_num)
                                   ELSE albums_to_sync
              /\ pc' = "album" /\ ai' = 1
              /\ UNCHANGED <<pi, missing_photos, g_id, exported, ci, cj, found_files,
                             upvars, halt>>
         ELSE Leave("aborted")
    /\ UNCHANGED <<world, runs, args>>
    /\ UNCHANGED traced
    /\ UNCHANGED <<watch, created, commit_calls, insert_attempts, returned_true, calls, ledger0,
                   resolve_tries, auth_flows, insert_path, dup_key>>

(***************************************************************************)
(* main(), lines 338-367: the album loop and the resolution of an album.   *)
(***************************************************************************)
album == albums_to_sync[ai]

EndOfAlbums ==
    /\ pc = "album"
    /\ ai > Len(albums_to_sync)
    /\ Leave("finished")
    /\ UNCHANGED <<world, runs, args>>
    /\ UNCHANGED traced
    /\ UNCHANGED <<watch, created, commit_calls, insert_attempts, returned_true, calls, ledger0,
                   resolve_tries, auth_flows, insert_path, dup_key>>

CallKinds(r) ==
    (IF r.lists > 0 THEN {"list"} ELSE {}) \cup (IF r.creates > 0 THEN {"create"} ELSE {})

\* find_or_create_album returned: lines 364-367
Resolved(r) ==
    /\ g_id' = r.id
    /\ r_albums' = r.remote
    /\ calls' = calls \cup CallKinds(r)
    /\ pc' = "photo" /\ pi' = 1 /\ missing_photos' = <<>>
    /\ find_log' = [lists |-> r.lists, creates |-> r.creates]
    /\ invoked' = <<>>
    /\ UNCHANGED <<albums_to_sync, ai, exported, ci, cj, found_files, upvars, halt>>

\* lines 341-344, 361-362: the first call for the album
Resolve ==
    /\ pc = "album"
    /\ ai <= Len(albums_to_sync)
    /\ resolve_tries' = 1
    /\ auth_flows' = 0
    /\ \E answer \in {"ok", "insufficient_scopes", "HttpError"} :
         /\ dry_run => answer = "ok"
         /\ IF answer = "ok"
            THEN Resolved(find_or_create_album(r_albums, album.title, dry_run))
            ELSE IF answer = "insufficient_scopes"
            THEN /\ pc' = "reauth"
                 /\ calls' = calls \cup {"list"}
                 /\ UNCHANGED <<r_albums, locals, upvars, halt, find_log, invoked>>
            ELSE /\ Leave("HttpError")
                 /\ calls' = calls \cup {"list"}
                 /\ UNCHANGED <<r_albums, find_log, invoked>>
    /\ UNCHANGED <<shared_albums, ledger, temp_dir, token_pickle, runs, args>>
    /\ UNCHANGED <<confirmed_run, direct_tries, recovery_tries>>
    /\ UNCHANGED <<watch, created, commit_calls, insert_attempts, returned_true, ledger0,
                   insert_path, dup_key>>

\* lines 345-351: delete token.pickle, get_google_service
Reauth ==
    /\ pc = "reauth"
    /\ \E service \in {"flow", "raise"} :
         IF service = "flow"
         THEN /\ token_pickle' = TRUE
              /\ auth_flows' = auth_flows + 1
              /\ pc' = "retry"
              /\ UNCHANGED <<locals, upvars, halt>>
         ELSE /\ token_pickle' = FALSE
              /\ auth_flows' = auth_flows
              /\ Leave("auth_failed")
    /\ UNCHANGED <<shared_albums, ledger, temp_dir, r_albums, runs, args, traced>>
    /\ UNCHANGED <<watch, created, commit_calls, insert_attempts, returned_true, calls, ledger0,
                   resolve_tries, insert_path, dup_key>>

\* mutant: a second failure skips the album instead of returning
RetryResolve_continue ==
    /\ pc = "retry"
    /\ resolve_tries' = resolve_tries + 1
    /\ \E answer \in {"ok", "HttpError"} :
         IF answer = "ok"
         THEN Resolved(find_or_create_album(r_albums, album.title, dry_run))
         ELSE /\ pc' = "album" /\ ai' = ai + 1
              /\ calls' = calls \cup {"list"}
              /\ UNCHANGED <<r_albums, albums_to_sync, pi, missing_photos, g_id, exported,
                             ci, cj, found_files, upvars, halt, find_log, invoked>>
    /\ UNCHANGED <<shared_albums, ledger, temp_dir, token_pickle, runs, args>>
    /\ UNCHANGED <<confirmed_run, direct_tries, recovery_tries>>
    /\ UNCHANGED <<watch, created, commit_calls, insert_attempts, returned_true, ledger0,
                   auth_flows, insert_path, dup_key>>

\* lines 354-360: the retry with the new service
RetryResolve ==
    /\ pc = "retry"
    /\ resolve_tries' = resolve_tries + 1
    /\ \E answer \in {"ok", "HttpError"} :
         IF answer = "ok"
         THEN Resolved(find_or_create_album(r_albums, album.title, dry_run))
         ELSE /\ Leave("failed_again")
              /\ calls' = calls \cup {"list"}
              /\ UNCHANGED <<r_albums, find_log, invoked>>
    /\ UNCHANGED <<shared_albums, ledger, temp_dir, token_pickle, runs, args>>
    /\ UNCHANGED <<confirmed_run, direct_tries, recovery_tries>>
    /\ UNCHANGED <<watch, created, commit_calls, insert_attempts, returned_true, ledger0,
                   auth_flows, insert_path, dup_key>>

(***************************************************************************)
(* main(), lines 369-406: the photo loop of one album.                     *)
(***************************************************************************)
photos_to_sync == album.photos
photo == photos_to_sync[pi]

\* the files an export of `uuid` by `src` leaves in temp_dir: photo "a" is a live
\* photo (an image and its video), every other photo a still
FileCount(uuid) == IF uuid = "a" THEN 2 ELSE 1

Files(uuid, src, n) == [k \in 1..n |-> [uuid |-> uuid, src |-> src, n |-> k]]

\* mutant: INSERT OR REPLACE into a table keyed by photo_uuid alone
Insert_replace(row, site) ==
    /\ insert_attempts' = IF row = watch THEN insert_attempts + 1 ELSE insert_attempts
    /\ insert_path' = site
    /\ ledger' = {r \in ledger : r[1] # row[1]} \cup {row}
    /\ UNCHANGED dup_key

\* INSERT INTO uploads ... ; conn.commit()  (lines 389-390, 252-253)
Insert(row, site) ==
    /\ insert_attempts' = IF row = watch THEN insert_attempts + 1 ELSE insert_attempts
    /\ insert_path' = site
    /\ IF row \in ledger
       THEN /\ dup_key' = TRUE
            /\ UNCHANGED ledger
       ELSE /\ ledger' = ledger \cup {row}
            /\ UNCHANGED dup_key

\* lines 404-406 once the photo loop is over
EndOfPhotos ==
    /\ pc = "photo"
    /\ pi > Len(photos_to_sync)
    /\ IF missing_photos # <<>>
       THEN pc' = "chunk" /\ ci' = 0 /\ ai' = ai
       ELSE pc' = "album" /\ ai' = ai + 1 /\ ci' = ci
    /\ UNCHANGED <<world, runs, args, albums_to_sync, pi, missing_photos, g_id, exported,
                   cj, found_files, upvars, observed, traced>>

\* lines 370-372
DryPhoto ==
    /\ pc = "photo"
    /\ pi <= Len(photos_to_sync)
    /\ dry_run
    /\ pi' = pi + 1
    /\ UNCHANGED <<world, runs, pc, args, albums_to_sync, ai, missing_photos, g_id,
                   exported, ci, cj, found_files, upvars, observed, traced>>

\* lines 374-388: export; queue the photo, or call upload_photo(exported[0], g_id)
Export ==
    /\ pc = "photo"
    /\ pi <= Len(photos_to_sync)
    /\ ~dry_run
    /\ \E n \in {0, FileCount(photo)} :
         IF n = 0
         THEN /\ missing_photos' = Append(missing_photos, photo)
              /\ pi' = pi + 1
              /\ UNCHANGED <<pc, exported, temp_dir, upvars, direct_tries>>
         ELSE /\ exported' = Files(photo, "export", n)
              /\ temp_dir' = temp_dir \cup Range(Files(photo, "export", n))
              /\ pc' = "up_bytes"
              /\ ret_pc' = "main_uploaded"
              /\ up_args' = [uuid |-> photo, album_id |-> g_id]
              /\ up_log' = NoLog /\ cm_log' = NoLog /\ up_result' = "-"
              /\ direct_tries' = IF <<photo, album.title>> = watch
                                 THEN direct_tries + 1 ELSE direct_tries
              /\ UNCHANGED <<pi, missing_photos>>
    /\ UNCHANGED <<shared_albums, ledger, token_pickle, r_albums, runs, args,
                   albums_to_sync, ai, g_id, ci, cj, found_files, observed>>
    /\ UNCHANGED <<invoked, find_log, confirmed_run, recovery_tries>>

\* mutant: the row is recorded unless upload_photo returned None
MainRecord_not_none ==
    /\ pc = "main_uploaded"
    /\ IF up_result # "None"
       THEN Insert(<<photo, album.title>>, "main")
       ELSE UNCHANGED <<ledger, insert_attempts, insert_path, dup_key>>
    /\ IF up_result # "None" /\ <<photo, album.title>> \in ledger
       THEN /\ Leave("IntegrityError")
            /\ UNCHANGED temp_dir
       ELSE /\ temp_dir' = temp_dir \ Range(exported)
            /\ exported' = <<>>
            /\ pi' = pi + 1
            /\ pc' = "photo"
            /\ ReturnedFrom
            /\ UNCHANGED <<albums_to_sync, ai, missing_photos, g_id, ci, cj, found_files,
                           halt>>
    /\ UNCHANGED <<shared_albums, token_pickle, r_albums, runs, args, traced>>
    /\ UNCHANGED <<watch, created, commit_calls, returned_true, calls, ledger0, resolve_tries,
                   auth_flows>>

\* mutant: a failed upload ends the run
MainRecord_failure_ends_run ==
    /\ pc = "main_uploaded"
    /\ IF up_result = "True"
       THEN Insert(<<photo, album.title>>, "main")
       ELSE UNCHANGED <<ledger, insert_attempts, insert_path, dup_key>>
    /\ IF up_result # "True" \/ <<photo, album.title>> \in ledger
       THEN /\ Leave(IF up_result = "True" THEN "IntegrityError" ELSE "upload_failed")
            /\ UNCHANGED temp_dir
       ELSE /\ temp_dir' = temp_dir \ Range(exported)
            /\ exported' = <<>>
            /\ pi' = pi + 1
            /\ pc' = "photo"
            /\ ReturnedFrom
            /\ UNCHANGED <<albums_to_sync, ai, missing_photos, g_id, ci, cj, found_files,
                           halt>>
    /\ UNCHANGED <<shared_albums, token_pickle, r_albums, runs, args, traced>>
    /\ UNCHANGED <<watch, created, commit_calls, returned_true, calls, ledger0, resolve_tries,
                   auth_flows>>

\* lines 388-402: record the row when upload_photo returned true, remove the files
MainRecord ==
    /\ pc = "main_uploaded"
    /\ IF up_result = "True"
       THEN Insert(<<photo, album.title>>, "main")
       ELSE UNCHANGED <<ledger, insert_attempts, insert_path, dup_key>>
    /\ IF up_result = "True" /\ <<photo, album.title>> \in ledger
       THEN /\ Leave("IntegrityError")
            /\ UNCHANGED temp_dir
       ELSE /\ temp_dir' = temp_dir \ Range(exported)
            /\ exported' = <<>>
            /\ pi' = pi + 1
            /\ pc' = "photo"
            /\ ReturnedFrom
            /\ UNCHANGED <<albums_to_sync, ai, missing_photos, g_id, ci, cj, found_files,
                           halt>>
    /\ UNCHANGED <<shared_albums, token_pickle, r_albums, runs, args, traced>>
    /\ UNCHANGED <<watch, created, commit_calls, returned_true, calls, ledger0, resolve_tries,
                   auth_flows>>

(***************************************************************************)
(* download_and_upload_missing, lines 178-265.                             *)
(***************************************************************************)
\* mutant: the slice has no upper bound
chunk_to_end == SubSeq(missing_photos, ci + 1, Len(missing_photos))

\* chunk = missing_photos[i:i + chunk_size]
chunk == SubSeq(missing_photos, ci + 1, Min(ci + chunk_size, Len(missing_photos)))

\* glob.glob(os.path.join(temp_dir, f"{photo.uuid}.*"))
Glob(uuid) ==
    LET S == {f \in temp_dir : f.uuid = uuid /\ f.src = "recover"}
    IN  [k \in 1..Cardinality(S) |->
            CHOOSE f \in S : Cardinality({g \in S : g.n <= f.n}) = k]

\* the photos of the chunk whose files the export may leave in temp_dir: any of them
\* for a chunk of up to MaxPhotos photos; a longer chunk is explored only on exports
\* that leave no file
Recovered(c) == IF Len(c) <= MaxPhotos THEN SUBSET Range(c) ELSE {{}}

\* line 187: the chunk loop is over, the function returns into the album loop
EndOfChunks ==
    /\ pc = "chunk"
    /\ ci >= Len(missing_photos)
    /\ pc' = "album" /\ ai' = ai + 1
    /\ UNCHANGED <<world, runs, args, albums_to_sync, pi, missing_photos, g_id, exported,
                   ci, cj, found_files, upvars, observed, traced>>

\* mutant: after a timed-out or failed export the photos of the chunk are looked for
\* and uploaded all the same
RunChunk_process_skipped ==
    /\ pc = "chunk"
    /\ ci < Len(missing_photos)
    /\ \E outcome \in {"ok", "TimeoutExpired", "failed", "no_authorization"} :
         /\ invoked' = Append(invoked, [title |-> album.title, chunk |-> chunk,
                                        outcome |-> outcome])
         /\ IF outcome = "no_authorization"
            THEN /\ Leave("exit_1")
                 /\ UNCHANGED temp_dir
            ELSE /\ \E got \in Recovered(chunk) \cup {{chunk[1]}} :
                       temp_dir' = temp_dir \cup
                          UNION {Range(Files(p, "recover", FileCount(p))) : p \in got}
                 /\ pc' = "rec_photo" /\ cj' = 0
                 /\ UNCHANGED <<albums_to_sync, ai, pi, missing_photos, g_id, exported, ci,
                                found_files, upvars, halt>>
    /\ recovery_tries' = IF watch[1] \in Range(chunk) /\ watch[2] = album.title
                         THEN recovery_tries + 1 ELSE recovery_tries
    /\ UNCHANGED <<shared_albums, ledger, token_pickle, r_albums, runs, args>>
    /\ UNCHANGED <<watch, created, commit_calls, insert_attempts, returned_true, calls, ledger0,
                   resolve_tries, auth_flows, insert_path, dup_key>>
    /\ UNCHANGED <<find_log, confirmed_run, direct_tries>>

\* mutant: the authorization failure is handled like any other failed export
RunChunk_auth_continues ==
    /\ pc = "chunk"
    /\ ci < Len(missing_photos)
    /\ \E outcome \in {"ok", "TimeoutExpired", "failed", "no_authorization"} :
         /\ invoked' = Append(invoked, [title |-> album.title, chunk |-> chunk,
                                        outcome |-> outcome])
         /\ IF outcome = "ok"
            THEN /\ \E got \in Recovered(chunk) :
                       temp_dir' = temp_dir \cup
                          UNION {Range(Files(p, "recover", FileCount(p))) : p \in got}
                 /\ pc' = "rec_photo" /\ cj' = 0
                 /\ UNCHANGED <<albums_to_sync, ai, pi, missing_photos, g_id, exported, ci,
                                found_files, upvars, halt>>
            ELSE /\ ci' = ci + chunk_size
                 /\ UNCHANGED <<temp_dir, pc, albums_to_sync, ai, pi, missing_photos, g_id,
                                exported, cj, found_files, upvars, halt>>
    /\ recovery_tries' = IF watch[1] \in Range(chunk) /\ watch[2] = album.title
                         THEN recovery_tries + 1 ELSE recovery_tries
    /\ UNCHANGED <<shared_albums, ledger, token_pickle, r_albums, runs, args>>
    /\ UNCHANGED <<watch, created, commit_calls, insert_attempts, returned_true, calls, ledger0,
                   resolve_tries, auth_flows, insert_path, dup_key>>
    /\ UNCHANGED <<find_log, confirmed_run, direct_tries>>

\* lines 188-235: one osxphotos export of the chunk
RunChunk ==
    /\ pc = "chunk"
    /\ ci < Len(missing_photos)
    /\ \E outcome \in {"ok", "TimeoutExpired", "failed", "no_authorization"} :
         /\ invoked' = Append(invoked, [title |-> album.title, chunk |-> chunk,
                                        outcome |-> outcome])
         /\ IF outcome = "ok"
            THEN /\ \E got \in Recovered(chunk) :
                       temp_dir' = temp_dir \cup
                          UNION {Range(Files(p, "recover", FileCount(p))) : p \in got}
                 /\ pc' = "rec_photo" /\ cj' = 0
                 /\ UNCHANGED <<albums_to_sync, ai, pi, missing_photos, g_id, exported, ci,
                                found_files, upvars, halt>>
            ELSE IF outcome = "no_authorization"
            THEN /\ Leave("exit_1")
                 /\ UNCHANGED temp_dir
            ELSE /\ ci' = ci + chunk_size
                 /\ UNCHANGED <<temp_dir, pc, albums_to_sync, ai, pi, missing_photos, g_id,
                                exported, cj, found_files, upvars, halt>>
    /\ recovery_tries' = IF watch[1] \in Range(chunk) /\ watch[2] = album.title
                         THEN recovery_tries + 1 ELSE recovery_tries
    /\ UNCHANGED <<shared_albums, ledger, token_pickle, r_albums, runs, args>>
    /\ UNCHANGED <<watch, created, commit_calls, insert_attempts, returned_true, calls, ledger0,
                   resolve_tries, auth_flows, insert_path, dup_key>>
    /\ UNCHANGED <<find_log, confirmed_run, direct_tries>>

\* mutant: the loop offset does not advance
EndOfChunk_same_offset ==
    /\ pc = "rec_photo"
    /\ cj >= Len(chunk)
    /\ ci' = ci
    /\ pc' = "chunk"
    /\ UNCHANGED <<world, runs, args, albums_to_sync, ai, pi, missing_photos, g_id,
                   exported, cj, found_files, upvars, observed, traced>>

\* line 238: the photos of the chunk are done
EndOfChunk ==
    /\ pc = "rec_photo"
    /\ cj >= Len(chunk)
    /\ ci' = ci + chunk_size
    /\ pc' = "chunk"
    /\ UNCHANGED <<world, runs, args, albums_to_sync, ai, pi, missing_photos, g_id,
                   exported, cj, found_files, upvars, observed, traced>>

\* lines 238-251: look for the photo's files; call upload_photo(found_files[0], g_id)
RecPhoto ==
    /\ pc = "rec_photo"
    /\ cj < Len(chunk)
    /\ IF Glob(chunk[cj + 1]) = <<>>
       THEN /\ cj' = cj + 1
            /\ UNCHANGED <<pc, found_files, upvars>>
       ELSE /\ found_files' = Glob(chunk[cj + 1])
            /\ pc' = "up_bytes"
            /\ ret_pc' = "rec_uploaded"
            /\ up_args' = [uuid |-> chunk[cj + 1], album_id |-> g_id]
            /\ up_log' = NoLog /\ cm_log' = NoLog /\ up_result' = "-"
            /\ UNCHANGED cj
    /\ UNCHANGED <<world, runs, args, albums_to_sync, ai, pi, missing_photos, g_id,
                   exported, ci, observed, traced>>

\* mutant: the row is recorded unless upload_photo returned False
RecRecord_not_false ==
    /\ pc = "rec_uploaded"
    /\ IF up_result # "False"
       THEN Insert(<<chunk[cj + 1], album.title>>, "recovery")
       ELSE UNCHANGED <<ledger, insert_attempts, insert_path, dup_key>>
    /\ IF up_result # "False" /\ <<chunk[cj + 1], album.title>> \in ledger
       THEN /\ Leave("IntegrityError")
            /\ UNCHANGED temp_dir
       ELSE /\ temp_dir' = temp_dir \ Range(found_files)
            /\ found_files' = <<>>
            /\ cj' = cj + 1
            /\ pc' = "rec_photo"
            /\ ReturnedFrom
            /\ UNCHANGED <<albums_to_sync, ai, pi, missing_photos, g_id, exported, ci,
                           halt>>
    /\ UNCHANGED <<shared_albums, token_pickle, r_albums, runs, args, traced>>
    /\ UNCHANGED <<watch, created, commit_calls, returned_true, calls, ledger0, resolve_tries,
                   auth_flows>>

\* lines 251-265
RecRecord ==
    /\ pc = "rec_uploaded"
    /\ IF up_result = "True"
       THEN Insert(<<chunk[cj + 1], album.title>>, "recovery")
       ELSE UNCHANGED <<ledger, insert_attempts, insert_path, dup_key>>
    /\ IF up_result = "True" /\ <<chunk[cj + 1], album.title>> \in ledger
       THEN /\ Leave("IntegrityError")
            /\ UNCHANGED temp_dir
       ELSE /\ temp_dir' = temp_dir \ Range(found_files)
            /\ found_files' = <<>>
            /\ cj' = cj + 1
            /\ pc' = "rec_photo"
            /\ ReturnedFrom
            /\ UNCHANGED <<albums_to_sync, ai, pi, missing_photos, g_id, exported, ci,
                           halt>>
    /\ UNCHANGED <<shared_albums, token_pickle, r_albums, runs, args, traced>>
    /\ UNCHANGED <<watch, created, commit_calls, returned_true, calls, ledger0, resolve_tries,
                   auth_flows>>

(***************************************************************************)
(* The run is interrupted (the process is killed, Ctrl+C, power loss).     *)
(***************************************************************************)
Crash ==
    /\ pc # "idle"
    /\ Leave("crash")
    /\ UNCHANGED <<world, runs, args>>
    /\ UNCHANGED traced
    /\ UNCHANGED <<watch, created, commit_calls, insert_attempts, returned_true, calls, ledger0,
                   resolve_tries, auth_flows, insert_path, dup_key>>

Next ==
    \/ StartRun
    \/ ComputeBacklog
    \/ AllSynced
    \/ LimitAndConfirm
    \/ EndOfAlbums
    \/ Resolve
    \/ Reauth
    \/ RetryResolve
    \/ EndOfPhotos
    \/ DryPhoto
    \/ Export
    \/ upload_photo_bytes(RunUpScripts, RunJitterSeqs)
    \/ upload_photo_commit(RunCmScripts, RunJitterSeqs)
    \/ MainRecord
    \/ EndOfChunks
    \/ RunChunk
    \/ EndOfChunk
    \/ RecPhoto
    \/ RecRecord
    \/ Crash

Spec == Init /\ [][Next]_vars

(***************************************************************************)
(* The pending-work calculation on generated listings and ledgers.         *)
(***************************************************************************)
InitBacklog ==
    /\ shared_albums \in GenLibraries \cup {ExampleLibrary}
    /\ ledger \in GenLedgers \cup {ExampleLedger}
    /\ watch = <<"a", "D1">>
    /\ temp_dir = {} /\ token_pickle = TRUE /\ r_albums = <<>>
    /\ runs = 1 /\ pc = "calc" /\ dry_run = FALSE /\ args_num = 0
    /\ InitLocals /\ InitUp /\ InitObserved

NextBacklog == ComputeBacklog

SpecBacklog == InitBacklog /\ [][NextBacklog]_vars

(***************************************************************************)
(* One call of upload_photo on generated answer scripts and jitter draws.  *)
(***************************************************************************)
InitUpload ==
    /\ shared_albums = <<[title |-> "D1", photos |-> <<"a">>]>>
    /\ watch = <<"a", "D1">>
    /\ ledger = {} /\ token_pickle = TRUE /\ r_albums = <<"D1">>
    /\ temp_dir = Range(Files("a", "export", FileCount("a")))
    /\ runs = 1 /\ pc = "up_bytes" /\ dry_run = FALSE /\ args_num = 0
    /\ albums_to_sync = shared_albums /\ ai = 1 /\ pi = 1 /\ missing_photos = <<>>
    /\ g_id = 1 /\ exported = Files("a", "export", FileCount("a"))
    /\ ci = 0 /\ cj = 0 /\ found_files = <<>>
    /\ ret_pc = "up_returned" /\ up_args = [uuid |-> "a", album_id |-> 1]
    /\ up_log = NoLog /\ cm_log = NoLog /\ up_result = "-"
    /\ InitObserved

NextUpload ==
    \/ upload_photo_bytes(UpScripts, JitterSeqs)
    \/ upload_photo_commit(CmScripts, JitterSeqs)

SpecUpload == InitUpload /\ [][NextUpload]_vars

(***************************************************************************)
(* One call of download_and_upload_missing on a missing list of 0 to       *)
(* MaxMissing photos "1", "2", ... of album D1.                            *)
(***************************************************************************)
MaxMissing == 120

Numbered(n) == [k \in 1..n |-> ToString(k)]

InitChunks ==
    /\ \E n \in 0..MaxMissing :
         /\ shared_albums = <<[title |-> "D1", photos |-> Numbered(n)]>>
         /\ missing_photos = Numbered(n)
         /\ pi = n + 1
    /\ watch = <<"1", "D1">>
    /\ ledger = {} /\ temp_dir = {} /\ token_pickle = TRUE /\ r_albums = <<"D1">>
    /\ runs = 1 /\ pc = "chunk" /\ dry_run = FALSE /\ args_num = 0
    /\ albums_to_sync = shared_albums /\ ai = 1
    /\ g_id = 1 /\ exported = <<>> /\ ci = 0 /\ cj = 0 /\ found_files = <<>>
    /\ InitUp /\ InitObserved

NextChunks ==
    \/ EndOfChunks
    \/ RunChunk
    \/ EndOfChunk
    \/ RecPhoto
    \/ upload_photo_bytes(RunUpScripts, RunJitterSeqs)
    \/ upload_photo_commit(RunCmScripts, RunJitterSeqs)
    \/ RecRecord

SpecChunks == InitChunks /\ [][NextChunks]_vars

(***************************************************************************)
(* The resolution of one album against generated remote listings of 0 to   *)
(* MaxRemote albums: the titles at the positions of `hits` are D1, the     *)
(* other ones are d1 and D2 in turn.                                       *)
(***************************************************************************)
MaxRemote == 101

Listing(n, hits) ==
    [k \in 1..n |-> IF k \in hits THEN "D1" ELSE IF k % 2 = 0 THEN "d1" ELSE "D2"]

HitSets(n) ==
    {h \in SUBSET ({1, pageSize, pageSize + 1, 2 * pageSize, 2 * pageSize + 1, n} \cap 1..n) :
        Cardinality(h) <= 2}

GenRemotes == UNION { {Listing(n, h) : h \in HitSets(n)} : n \in 0..MaxRemote }

InitFind ==
    /\ \E t \in {"D1", "d1"} :
         /\ shared_albums = <<[title |-> t, photos |-> <<"a">>]>>
         /\ watch = <<"a", t>>
    /\ r_albums \in GenRemotes
    /\ ledger = {} /\ temp_dir = {} /\ token_pickle = TRUE
    /\ runs = 1 /\ pc = "album" /\ dry_run = FALSE /\ args_num = 0
    /\ albums_to_sync = shared_albums /\ ai = 1 /\ pi = 0 /\ missing_photos = <<>>
    /\ g_id = 0 /\ exported = <<>> /\ ci = 0 /\ cj = 0 /\ found_files = <<>>
    /\ InitUp /\ InitObserved

NextFind ==
    \/ Resolve
    \/ Reauth
    \/ RetryResolve

SpecFind == InitFind /\ [][NextFind]_vars

(***************************************************************************)
(* One run of main() to its end, from any ledger over the pairs of the     *)
(* listing.  main() is one thread: a step that can be taken is taken,      *)
(* unless the process is interrupted.                                      *)
(***************************************************************************)
InitLive ==
    /\ shared_albums \in RunLibraries
    /\ watch \in LibPairs(shared_albums)
    /\ ledger \in SUBSET LibPairs(shared_albums)
    /\ temp_dir = {} /\ token_pickle = FALSE /\ r_albums = <<>>
    /\ runs = MaxRuns - 1 /\ pc = "idle" /\ dry_run = FALSE /\ args_num = 0
    /\ InitLocals /\ InitUp /\ InitObserved

\* the steps of a running main()
Running ==
    \/ ComputeBacklog
    \/ AllSynced
    \/ LimitAndConfirm
    \/ EndOfAlbums
    \/ Resolve
    \/ Reauth
    \/ RetryResolve
    \/ EndOfPhotos
    \/ DryPhoto
    \/ Export
    \/ upload_photo_bytes(RunUpScripts, RunJitterSeqs)
    \/ upload_photo_commit(RunCmScripts, RunJitterSeqs)
    \/ MainRecord
    \/ EndOfChunks
    \/ RunChunk
    \/ EndOfChunk
    \/ RecPhoto
    \/ RecRecord

SpecLive == InitLive /\ [][Next]_vars /\ WF_vars(Running)

(***************************************************************************)
(* Properties.  The counters are about the watched pair, which Init draws  *)
(* from all pairs of the listing: a property of `watch` is a property of   *)
(* every (item, destination) pair.                                         *)
(***************************************************************************)

\* the albums of the listing that hold the pair
Occurrences(pair) ==
    {i \in 1..Len(shared_albums) :
        shared_albums[i].title = pair[2] /\ pair[1] \in Range(shared_albums[i].photos)}

\* C1 (as claimed): over runs of main() that may be interrupted anywhere, the remote
\* performs at most one successful batchCreate commit for an (item, destination) pair;
\* stated for a pair the listing holds once.
C1_AtMostOneCommit == Cardinality(Occurrences(watch)) = 1 => created <= 1

\* C2: a ledger row exists only for a pair whose upload_photo returned a confirmed
\* success: every INSERT executed for the pair follows its own upload_photo call that
\* returned True, which follows a 'Success' commit answer; on both call sites.
C2_RowOnlyAfterSuccess ==
    /\ watch \in ledger => insert_attempts >= 1
    /\ insert_attempts <= returned_true
    /\ returned_true <= created
    /\ pc \in {"main_uploaded", "rec_uploaded"} /\ up_result = "True"
          => cm_log.ret = "Success"

\* a row of the watched pair written by download_and_upload_missing
C2_Witness ==
    /\ ledger0 = {} /\ ledger = {watch}
    /\ insert_path = "recovery"
    /\ insert_attempts = 1

\* C3 (as claimed): no transfer of a pair is attempted while its ledger row exists.
C3_NoAttemptOnRecordedPair ==
    pc \in {"up_bytes", "up_commit"} => <<up_args.uuid, album.title>> \notin ledger

\* C4 (as claimed): no INSERT of a run hits the primary key, and a second run after a
\* full first run that recorded every pair of the listing inserts no new row: it
\* leaves the ledger as the first run left it.
C4_Idempotent ==
    /\ ~dup_key
    /\ (runs >= 2 /\ prev_full /\ LibPairs(shared_albums) \subseteq ledger0)
          => ledger = ledger0

Pending(i) ==
    SelectSeq(shared_albums[i].photos,
              LAMBDA p : <<p, shared_albums[i].title>> \notin ledger0)

Kept == {i \in 1..Len(shared_albums) : Pending(i) # <<>>}

NthKept(n) == CHOOSE i \in Kept : Cardinality({j \in Kept : j <= i}) = n

ExampleBacklog ==
    << [title |-> "D1", photos |-> <<"b", "c">>],
       [title |-> "D2", photos |-> <<"a", "d">>] >>

C6_BacklogCorrect ==
    pc = "pending" =>
        /\ Len(albums_to_sync) = Cardinality(Kept)
        /\ \A n \in 1..Len(albums_to_sync) :
              /\ albums_to_sync[n].title = shared_albums[NthKept(n)].title
              /\ albums_to_sync[n].photos = Pending(NthKept(n))
        /\ ledger = ledger0
        /\ (shared_albums = ExampleLibrary /\ ledger0 = ExampleLedger)
              => albums_to_sync = ExampleBacklog

\* the backlog of the example listing
C6_Witness ==
    /\ pc = "pending"
    /\ shared_albums = ExampleLibrary /\ ledger0 = ExampleLedger
    /\ albums_to_sync = ExampleBacklog

\* a phase whose every answer was a 429
AllRateLimited(log) ==
    /\ log.attempts > 0
    /\ \A k \in 1..Len(log.resps) : log.resps[k] = "429"

C8_DryRunIsInert ==
    dry_run =>
        /\ calls = {}
        /\ ledger = ledger0
        /\ pc \in {"idle", "calc", "pending", "album", "photo"}
        /\ missing_photos = <<>>
        /\ g_id = DRY_RUN_ID

\* a dry run that went through every album of a backlog and returned
C8_Witness ==
    /\ dry_run /\ pc = "idle" /\ halt = "finished"
    /\ ledger0 # LibPairs(shared_albums)
    /\ resolve_tries = 1

\* what the run did not do in a step
Quiet == UNCHANGED <<ledger, r_albums, temp_dir, created, commit_calls, insert_attempts>>

\* C9: after an insufficient-scope failure the token is renewed and the resolution
\* is retried once; a second failure ends the run, and an ended run resolves
\* nothing, transfers nothing and writes no row.
C9_RetryOnceThenHalt ==
    [][ /\ resolve_tries' <= 2
        /\ pc = "reauth" =>
              \/ pc' = "retry" /\ token_pickle' /\ auth_flows' = 1 /\ resolve_tries' = 1
              \/ pc' = "idle" /\ Quiet
        /\ pc = "retry" =>
              \/ pc' = "photo" /\ resolve_tries' = 2
              \/ pc' = "idle" /\ Quiet
        /\ pc = "idle" => runs' = runs + 1
      ]_vars

\* the run ended on the second failure with two albums pending and none resolved
C9_Witness ==
    /\ pc = "idle" /\ halt = "failed_again"
    /\ resolve_tries = 2 /\ auth_flows = 1
    /\ Len(CalcPending(shared_albums, ledger)) = 2
    /\ r_albums = <<>> /\ ledger = ledger0

\* upload_photo has returned
Returned == pc = ret_pc /\ up_result # "-"

\* C10 (as claimed): True only on a 'Success' commit answer, False only on a commit
\* request the remote answered without success (a status message other than
\* 'Success', or a refusal), and an outcome other than False when a phase exhausted
\* its attempts.
C10_ThreeOutcomes ==
    Returned =>
        /\ up_result = "True" => cm_log.ret = "Success"
        /\ up_result = "False" => cm_log.ret \in {"Failure", "raise"}
        /\ (up_log.ret = "None" \/ cm_log.ret = "None") => up_result \notin {"True", "False"}

\* C10 (amended): True exactly on a 'Success' commit answer; None exactly when the
\* byte-upload phase gave no token; False in every other case, which includes a
\* commit phase that raised and one that exhausted its 5 attempts.
C10_Outcomes ==
    Returned =>
        /\ up_result \in {"True", "False", "None"}
        /\ up_result = "True" <=> cm_log.ret = "Success"
        /\ up_result = "None" <=> up_log.ret \in {"None", "raise"}
        /\ up_result = "False" <=>
              (up_log.ret = "token" /\ cm_log.ret \in {"Failure", "raise", "None"})

\* the commit phase exhausted its attempts and upload_photo returned False
C10_Witness ==
    /\ Returned /\ up_result = "False"
    /\ cm_log.ret = "None" /\ cm_log.attempts = 5

\* the answers of the byte upload that are retried
UploadRetried == RetryStatus \cup {"Timeout", "ConnectionError"}

LoopDone == pc = "album" /\ ai > 1

Ceil(n, d) == (n + d - 1) \div d

RECURSIVE Flatten(_)
Flatten(inv) == IF inv = <<>> THEN <<>> ELSE Head(inv).chunk \o Flatten(Tail(inv))

Sizes(inv) == [k \in 1..Len(inv) |-> Len(inv[k].chunk)]

NonFatal(inv) == \A k \in 1..Len(inv) : inv[k].outcome # "no_authorization"

\* C12: osxphotos is invoked on consecutive slices of the missing list, in order, each
\* of chunk_size (50) photos but possibly the last; without a fatal authorization
\* failure the loop ends after ceil(n/50) invocations that together hold every missing
\* photo exactly once, whatever the outcomes of the chunks; 120 photos give 50, 50, 20.
C12_Chunking ==
    /\ pc # "idle" =>
          \A k \in 1..Len(invoked) :
              invoked[k].chunk =
                 SubSeq(missing_photos, chunk_size * (k - 1) + 1,
                        Min(chunk_size * k, Len(missing_photos)))
    /\ (LoopDone /\ NonFatal(invoked)) =>
          /\ Len(invoked) = Ceil(Len(missing_photos), chunk_size)
          /\ Flatten(invoked) = missing_photos
          /\ \A k \in 1..(Len(invoked) - 1) : Len(invoked[k].chunk) = chunk_size
          /\ Len(missing_photos) = 120 => Sizes(invoked) = <<50, 50, 20>>

\* 120 missing photos: three exports of 50, 50 and 20 photos, the first timed out, the
\* second failed
C12_Witness ==
    /\ LoopDone /\ Len(missing_photos) = 120
    /\ Sizes(invoked) = <<50, 50, 20>>
    /\ invoked[1].outcome = "TimeoutExpired" /\ invoked[2].outcome = "failed"
    /\ invoked[3].outcome = "ok"

\* the exports of the current album that timed out or failed without the
\* authorization text, and their photos
SkippedChunks == {k \in 1..Len(invoked) : invoked[k].outcome \in {"TimeoutExpired", "failed"}}

SkippedItems == UNION {Range(invoked[k].chunk) : k \in SkippedChunks}

C13_NothingOfSkipped ==
    /\ ret_pc = "rec_uploaded" => up_args.uuid \notin SkippedItems
    /\ \A k \in SkippedChunks : \A u \in Range(invoked[k].chunk) :
          <<u, invoked[k].title>> \notin ledger \ ledger0
    /\ pc = "chunk" => ci = chunk_size * Len(invoked)

C13_SkipStep ==
    (invoked' # invoked /\ Len(invoked') \in SkippedChunks') =>
        /\ pc' = "chunk" /\ halt' = "-"
        /\ ci' = ci + chunk_size
        /\ UNCHANGED <<ledger, upvars, calls, missing_photos>>

\* C13: an export that times out, or fails without the authorization text, skips its
\* chunk: the step leaves the ledger alone, starts no upload, does not end
\* the run and moves the loop to the next offset; no photo of the chunk is uploaded or
\* recorded afterwards in this run.
C13_SkippedChunk == [](C13_NothingOfSkipped) /\ [][C13_SkipStep]_vars

\* 51 missing photos: the export of the first 50 failed, photo 51 of the second chunk
\* was recovered and recorded
C13_Witness ==
    /\ Len(missing_photos) = 51 /\ Len(invoked) = 2
    /\ invoked[1].outcome = "failed" /\ invoked[2].outcome = "ok"
    /\ ledger = {<<"51", "D1">>} /\ insert_path = "recovery"

C14_HaltedAtAuthFailure ==
    \A k \in 1..Len(invoked) :
        invoked[k].outcome = "no_authorization" =>
            /\ k = Len(invoked)
            /\ pc = "idle" /\ halt = "exit_1"
            /\ ret_pc = "-"

C14_NothingAfterExit ==
    /\ (invoked' # invoked /\ invoked' # <<>>
          /\ invoked'[Len(invoked')].outcome = "no_authorization") =>
             /\ pc' = "idle" /\ halt' = "exit_1"
             /\ UNCHANGED <<ledger, r_albums, calls, confirmed_run>>
    /\ (halt = "exit_1" /\ runs' = runs) =>
             UNCHANGED <<ledger, r_albums, calls, confirmed_run, invoked>>

\* C14: an export that fails with the authorization text ends the run at once with
\* exit status 1: it is the last export of the run, no upload is in progress, and
\* until another run starts no album is resolved, no remote call is issued and no
\* ledger row is written.
C14_AuthFailureHalts == [](C14_HaltedAtAuthFailure) /\ [][C14_NothingAfterExit]_vars

\* the run exited on the export of the first of two pending albums: the second one
\* was never resolved
C14_Witness ==
    /\ pc = "idle" /\ halt = "exit_1"
    /\ Len(CalcPending(shared_albums, ledger0)) = 2
    /\ r_albums = <<"D1">>
    /\ invoked[Len(invoked)].outcome = "no_authorization"

\* no photo is being processed: main is between two photos, albums or chunks, or over
BetweenItems == pc \in {"idle", "calc", "pending", "album", "reauth", "retry", "photo", "chunk"}

\* C15 (as claimed): once the processing of a photo has ended, the files exported or
\* recovered for it are gone from temp_dir, whatever upload_photo returned and whether
\* or not the INSERT raised; stated for the first run, as long as it is not interrupted.
C15_TempFilesRemoved ==
    (runs = 1 /\ halt # "crash") =>
        /\ BetweenItems => temp_dir = {}
        /\ pc = "rec_photo" =>
              \A f \in temp_dir :
                  f.src = "recover" /\ \E k \in (cj + 1)..Len(chunk) : chunk[k] = f.uuid

\* the positions of the remote listing whose title is exactly `title`
Matches(title) == {k \in 1..Len(r_albums) : r_albums[k] = title}

First(S) == CHOOSE k \in S : \A j \in S : k <= j

C16_Resolution ==
    (~dry_run /\ pc \in {"album", "retry"} /\ pc' = "photo") =>
        IF Matches(album.title) # {}
        THEN /\ g_id' = First(Matches(album.title))
             /\ r_albums' = r_albums
             /\ find_log'.creates = 0 /\ "create" \notin calls'
             /\ find_log'.lists = Ceil(First(Matches(album.title)), pageSize)
        ELSE /\ r_albums' = Append(r_albums, album.title)
             /\ g_id' = Len(r_albums) + 1
             /\ find_log'.creates = 1 /\ "create" \in calls'
             /\ find_log'.lists = Max(1, Ceil(Len(r_albums), pageSize))

\* C16: find_or_create_album (not dry-run) lists page after page until a page holds a
\* title equal to the album's, case-sensitively: it returns the id of the first such
\* album of the listing and creates nothing; only when the whole listing holds no such
\* title does it create the album, once, and return the new id.
C16_FindOrCreate == [][C16_Resolution]_vars

\* the first D1 is album 51 of 101: found on the second page, the third page is not
\* listed, nothing is created
C16_Witness ==
    /\ pc = "photo" /\ album.title = "D1"
    /\ Len(r_albums) = 101 /\ Matches("D1") = {51, 101}
    /\ g_id = 51 /\ find_log = [lists |-> 2, creates |-> 0]

C17_InFlight ==
    /\ Cardinality(confirmed_run \ ledger) <= 1
    /\ (halt # "crash" /\ pc \notin {"main_uploaded", "rec_uploaded"}) =>
          confirmed_run \subseteq ledger
    /\ pc \in {"main_uploaded", "rec_uploaded"} =>
          confirmed_run \ ledger \subseteq {<<up_args.uuid, album.title>>}

\* C17: at every point of a run at most one pair has a 'Success' batchCreate answer of
\* this run and no ledger row: the pair whose upload_photo just returned (it stays
\* unrecorded if the run is interrupted there); and no step removes or changes a
\* ledger row.
C17_OneInFlight == [](C17_InFlight) /\ [][ledger \subseteq ledger']_vars

\* the run recorded one pair and was interrupted between the commit of another pair
\* and its INSERT
C17_Witness ==
    /\ pc = "idle" /\ halt = "crash"
    /\ Cardinality(confirmed_run \ ledger) = 1
    /\ Cardinality(ledger \ ledger0) = 1

\* the first n entries of a backlog
FirstN(s, n) == SubSeq(s, 1, Min(n, Len(s)))

\* C19 (as claimed): with --num N the album loop runs over the first N albums of the
\* backlog computed at the start of the run, and only pairs of those albums are
\* written to the ledger; for every N, N = 0 included.
C19_FirstNOnly ==
    (~args_all /\ args_num >= 0 /\ pc \notin {"idle", "calc", "pending"}) =>
        /\ albums_to_sync = FirstN(CalcPending(shared_albums, ledger0), args_num)
        /\ ledger \ ledger0 \subseteq
              LibPairs(FirstN(CalcPending(shared_albums, ledger0), args_num))

\* the watched pair is in the backlog the album loop starts on, in a non-dry run
Selected ==
    /\ pc = "album" /\ ai = 1 /\ ~dry_run
    /\ \E i \in 1..Len(albums_to_sync) :
          /\ albums_to_sync[i].title = watch[2]
          /\ watch[1] \in Range(albums_to_sync[i].photos)

\* upload_photo was called for the watched pair by main, or the pair was passed to an
\* osxphotos export, in this run
Attempted == direct_tries + recovery_tries >= 1

\* the run ended otherwise than by reaching the end of the album loop
Fatal == halt \notin {"-", "finished"}

C18_ItemFailureStep ==
    /\ (pc = "photo" /\ Len(missing_photos') > Len(missing_photos)) =>
          /\ pc' = "photo" /\ pi' = pi + 1 /\ halt' = "-"
          /\ ledger' = ledger
    /\ (pc \in {"main_uploaded", "rec_uploaded"} /\ up_result \in {"False", "None"}
          /\ halt' # "crash") =>
          /\ pc' = (IF pc = "main_uploaded" THEN "photo" ELSE "rec_photo")
          /\ halt' = "-"
          /\ ledger' = ledger
    /\ (pc = "rec_photo" /\ cj < Len(chunk) /\ Glob(chunk[cj + 1]) = <<>>
          /\ halt' # "crash") =>
          /\ pc' = "rec_photo" /\ cj' = cj + 1 /\ halt' = "-"
          /\ ledger' = ledger

\* C18: an export that gives no file, an upload_photo that returns False or None and
\* a photo still missing after the iCloud export leave the ledger as it is and let
\* the loop go on with the next photo; and in a non-dry run every photo of every album
\* the album loop starts on is eventually passed to upload_photo or to an osxphotos
\* export, unless the run ends before the end of the album loop (an error of the
\* album resolution, the authorization failure of the export, an exception of the
\* INSERT, an interruption).
C18_ItemFailureIsLocal == [][C18_ItemFailureStep]_vars /\ (Selected ~> (Attempted \/ Fatal))

\* the run went through its whole backlog although the upload of the watched pair
\* failed: the pair was tried and has no row
C18_Witness ==
    /\ pc = "idle" /\ halt = "finished"
    /\ Attempted /\ watch \notin ledger
    /\ insert_attempts = 0 /\ commit_calls >= 1

C20_Bounded ==
    /\ up_log.attempts <= 5 /\ cm_log.attempts <= 5
    /\ \A k1, k2 \in 1..Len(invoked) : k1 # k2 => invoked[k1].chunk # invoked[k2].chunk
    /\ Cardinality(Occurrences(watch)) = 1 => direct_tries <= 1 /\ recovery_tries <= 1
    /\ direct_tries + recovery_tries <= Cardinality(Occurrences(watch))

\* C20: every run ends, whatever the answers of the remote and of the export; a phase
\* of upload_photo makes at most 5 attempts, no chunk is exported twice, and a backlog
\* entry is passed at most once to upload_photo by main and at most once to an export.
C20_RunTerminates == [](C20_Bounded) /\ ((pc # "idle") ~> (pc = "idle"))

\* the run reached the end of its album loop after the commit phase of the watched
\* pair had used its five attempts
C20_Witness ==
    /\ pc = "idle" /\ halt = "finished"
    /\ commit_calls = 5 /\ insert_attempts = 0
    /\ direct_tries + recovery_tries = 1

====
